---------------------------- MODULE Spec2Model ----------------------------
(***************************************************************************)
(* Model of scripts/gongwen_doc.py: the front-matter parser, the block     *)
(* parser and build_document.                                              *)
(*                                                                         *)
(* A Python str is a sequence of characters; a character is a one-element  *)
(* TLA+ string.  Characters outside ASCII are written by their code point  *)
(* ("U+FEFF" is the byte-order mark).  A Python value is a tagged record:  *)
(* NoneV, StrV(s), ListV(items); a dict is a function from keys to values. *)
(***************************************************************************)
EXTENDS Integers, Sequences, FiniteSets, TLC

VARIABLES
    pc,                 \* position of the running function
    text,               \* _parse_simple_front_matter: its argument
    lines,              \* _parse_simple_front_matter: stripped.splitlines()
    i,                  \* _parse_simple_front_matter: the scan index (0-based)
    meta,               \* _parse_simple_front_matter: the metadata dict
    current_list_key,   \* _parse_simple_front_matter: <<>> is None, <<k>> is key k
    rest_text,          \* _parse_simple_front_matter: the returned remaining text
    body_lines,         \* _parse_controlled_markdown: body_text.splitlines()
    k,                  \* _parse_controlled_markdown: lines consumed by the for loop
    blocks,             \* _parse_controlled_markdown / build_document: the block list
    data,               \* the dict handed to build_document
    args_title,         \* main: args.title (<<>> when --title is not given)
    title_rendered,     \* build_document: local of the block path
    skipped_first_h1,   \* build_document: local of the block path
    bi,                 \* build_document: blocks consumed by the body loop
    document            \* build_document: the paragraphs added so far

vars == <<pc, text, lines, i, meta, current_list_key, rest_text, body_lines, k,
          blocks, data, args_title, title_rendered, skipped_first_h1, bi, document>>

fmVars == <<text, lines, i, meta, current_list_key, rest_text>>
mdVars == <<body_lines, k>>
docVars == <<data, args_title, title_rendered, skipped_first_h1, bi, document>>

-----------------------------------------------------------------------------
(* Python values *)

NoneV == [t |-> "none"]
StrV(s) == [t |-> "str", v |-> s]
ListV(items) == [t |-> "list", v |-> items]
EmptyDict == [key \in {} |-> NoneV]

DictSet(d, key, value) ==
    [x \in (DOMAIN d) \cup {key} |-> IF x = key THEN value ELSE d[x]]

\* dict.get(key): None when the key is absent
DictGet(d, key) == IF key \in DOMAIN d THEN d[key] ELSE NoneV

-----------------------------------------------------------------------------
(* Python str operations *)

BOM == "U+FEFF"

\* what str.strip() removes (the whitespace characters of the modelled alphabet)
Whitespace == {" ", "\t", "\n", "\r", "\f"}

\* where str.splitlines() breaks a line ("\r\n" counts once)
LineBoundaries == {"\n", "\r", "\f"}

\* index of the first character of s outside set W, Len(s) + 1 when there is none
FirstNotIn(s, W) ==
    CHOOSE j \in 1..(Len(s) + 1) :
        /\ (j = Len(s) + 1 \/ s[j] \notin W)
        /\ \A m \in 1..(j - 1) : s[m] \in W

\* index of the last character of s outside set W, 0 when there is none
LastNotIn(s, W) ==
    CHOOSE j \in 0..Len(s) :
        /\ (j = 0 \/ s[j] \notin W)
        /\ \A m \in (j + 1)..Len(s) : s[m] \in W

LStripSet(s, W) == SubSeq(s, FirstNotIn(s, W), Len(s))
RStripSet(s, W) == SubSeq(s, 1, LastNotIn(s, W))
StripSet(s, W) == RStripSet(LStripSet(s, W), W)

LStrip(s) == LStripSet(s, Whitespace)
RStrip(s) == RStripSet(s, Whitespace)
Strip(s) == StripSet(s, Whitespace)

StartsWith(s, p) == Len(s) >= Len(p) /\ SubSeq(s, 1, Len(p)) = p
EndsWith(s, p) == Len(s) >= Len(p) /\ SubSeq(s, Len(s) - Len(p) + 1, Len(s)) = p

Contains(s, c) == \E j \in 1..Len(s) : s[j] = c

\* s.split(c, 1) when c occurs in s: <<before the first c, after it>>
SplitFirst(s, c) ==
    LET j == CHOOSE n \in 1..Len(s) : s[n] = c /\ \A m \in 1..(n - 1) : s[m] # c
    IN  <<SubSeq(s, 1, j - 1), SubSeq(s, j + 1, Len(s))>>

RECURSIVE SplitAll(_, _)
\* s.split(c)
SplitAll(s, c) ==
    IF Contains(s, c)
    THEN <<SplitFirst(s, c)[1]>> \o SplitAll(SplitFirst(s, c)[2], c)
    ELSE <<s>>

\* the places where s.splitlines() breaks s: a line boundary character that
\* is not the "\n" of a "\r\n"
BreaksOf(s) ==
    {j \in 1..Len(s) : /\ s[j] \in LineBoundaries
                       /\ ~(s[j] = "\n" /\ j > 1 /\ s[j - 1] = "\r")}

\* the first character after the break at j ("\r\n" is two characters wide)
AfterBreak(s, j) ==
    IF s[j] = "\r" /\ j < Len(s) /\ s[j + 1] = "\n" THEN j + 2 ELSE j + 1

\* s.splitlines(): no line for the text after a final line boundary
SplitLines(s) ==
    LET B == BreaksOf(s)
        nth(n) == CHOOSE j \in B : Cardinality({b \in B : b <= j}) = n
        last == IF B = {} THEN 1 ELSE AfterBreak(s, nth(Cardinality(B)))
        count == Cardinality(B) + (IF last <= Len(s) THEN 1 ELSE 0)
    IN  [n \in 1..count |->
            SubSeq(s,
                   IF n = 1 THEN 1 ELSE AfterBreak(s, nth(n - 1)),
                   IF n <= Cardinality(B) THEN nth(n) - 1 ELSE Len(s))]

RECURSIVE Join(_, _)
\* sep.join(parts)
Join(parts, sep) ==
    IF parts = <<>> THEN <<>>
    ELSE IF Len(parts) = 1 THEN parts[1]
    ELSE parts[1] \o sep \o Join(Tail(parts), sep)

RECURSIVE FilterSeq(_, _)
\* [x for x in s if x not in Drop]
FilterSeq(s, Drop) ==
    IF s = <<>> THEN <<>>
    ELSE IF Head(s) \in Drop THEN FilterSeq(Tail(s), Drop)
    ELSE <<Head(s)>> \o FilterSeq(Tail(s), Drop)

Dashes == <<"-", "-", "-">>
Quotes == {"\"", "'"}


-----------------------------------------------------------------------------
(* Bounded inputs *)

\* most header lines after the opening delimiter in a generated text
MaxFMLines == 3
\* most characters of a character-by-character generated text
MaxRawLen == 4

SeqsUpTo(S, n) == UNION {[1..m -> S] : m \in 0..n}

\* lines a front-matter header is made of
FMLineChoices ==
    { <<"a", ":">>,                                      \* a:         opens list a
      <<"b", ":", " ">>,                                 \* b:         opens list b
      <<"-", " ", "x">>,                                 \* - x
      <<" ", " ", "-", " ", "y">>,                       \*   - y
      <<"a", ":", " ", "\"", "v", "\"">>,                \* a: "v"     scalar
      <<"b", ":", " ", "[", "x", ",", " ", "'", "y", "'", "]">>,  \* b: [x, 'y']
      <<>>,                                              \* blank
      <<"#", " ", "c">>,                                 \* # c        comment
      <<"-", "-", "-">>,                                 \* ---        delimiter
      <<" ", "-", " ", "z">>,                            \*  - z       not a dash item
      <<":", " ", "v">>,                                 \* : v        empty key
      <<"-", " ", " ">> }                                \* -          empty item

\* characters of the character-by-character texts
RawAlphabet == {"-", "\n", "a", " ", BOM, "\r"}

\* "---\n" + "\n".join(header lines), with and without a final newline
ComposedTexts ==
    { (Dashes \o <<"\n">> \o Join(ls, <<"\n">>)) \o tail :
        ls \in SeqsUpTo(FMLineChoices, MaxFMLines), tail \in {<<>>, <<"\n">>} }

FMTexts == ComposedTexts \cup SeqsUpTo(RawAlphabet, MaxRawLen)

-----------------------------------------------------------------------------
(* _parse_simple_front_matter *)

\* line 195: text.lstrip("\ufeff")
Stripped(t) == LStripSet(t, {BOM})

\* mutant of HasFrontMatter: the newline after the three dashes is not asked for
HasFrontMatter_AnyPrefix(stripped) == StartsWith(stripped, Dashes)

\* line 196: the text opens a front matter
HasFrontMatter(stripped) ==
    StartsWith(stripped, Dashes \o <<"\n">>) \/ stripped = Dashes

\* line 200: the second test of the opening line
FirstLineIsDelimiter(ls) == ls # <<>> /\ Strip(ls[1]) = Dashes

\* line 208
IsDelimiterLine(line) == Strip(line) = Dashes
\* line 211
IsBlankOrComment(line) == Strip(line) = <<>> \/ StartsWith(LStrip(line), <<"#">>)
\* line 215
IsDashLine(line) ==
    StartsWith(line, <<" ", " ", "-", " ">>) \/ StartsWith(line, <<"-", " ">>)

\* line 217: the item of a dash line
DashItemOf(line) == Strip(SplitFirst(line, "-")[2])

\* line 219: meta.setdefault(key, []).append(item)
AppendItem(d, key, item) ==
    DictSet(d, key, ListV(Append(IF key \in DOMAIN d THEN d[key].v ELSE <<>>, item)))

\* lines 216-219: what a dash line does to meta
MetaAfterDash(d, open, line) ==
    IF open # <<>> /\ open[1] # <<>> /\ DashItemOf(line) # <<>>
    THEN AppendItem(d, open[1], DashItemOf(line))
    ELSE d

\* mutant of ClosedListKey: line 223 left out, the list stays open
ClosedListKey_StillOpen(open) == open

\* line 223: any other line closes the open list
ClosedListKey(open) == <<>>

\* line 239: the items of an inline list
InlineItems(inner) ==
    LET parts == SplitAll(inner, ",")
        kept == FilterSeq([n \in 1..Len(parts) |-> Strip(parts[n])], {<<>>})
    IN  [n \in 1..Len(kept) |-> StripSet(kept[n], Quotes)]

\* lines 224-245: what a key/value line does to meta
MetaAfterKeyValue(d, line) ==
    IF ~Contains(line, ":") THEN d
    ELSE LET key == Strip(SplitFirst(line, ":")[1])
             value == Strip(SplitFirst(line, ":")[2])
         IN  IF key = <<>> THEN d
             ELSE IF value = <<>> THEN DictSet(d, key, ListV(<<>>))
             ELSE IF StartsWith(value, <<"[">>) /\ EndsWith(value, <<"]">>)
             THEN LET inner == Strip(SubSeq(value, 2, Len(value) - 1))
                  IN  DictSet(d, key, ListV(IF inner # <<>> THEN InlineItems(inner) ELSE <<>>))
             ELSE DictSet(d, key, StrV(StripSet(value, Quotes)))

\* lines 223-235: the list key left open by a key/value line
ListKeyAfterKeyValue(open, line) ==
    IF Contains(line, ":")
       /\ Strip(SplitFirst(line, ":")[1]) # <<>>
       /\ Strip(SplitFirst(line, ":")[2]) = <<>>
    THEN <<Strip(SplitFirst(line, ":")[1])>>
    ELSE ClosedListKey(open)

\* mutant of RestText: the join starts one line early, at lines[i - 1:]
RestText_OneLineEarly(ls, idx) == Join(SubSeq(ls, idx, Len(ls)), <<"\n">>)

\* line 247: "\n".join(lines[i:])
RestText(ls, idx) == Join(SubSeq(ls, idx + 1, Len(ls)), <<"\n">>)

\* the line the scan is at (Python lines[i])
CurLine == lines[i + 1]
Scanning == pc = "fm_loop" /\ i < Len(lines)

\* lines 195-197, 200-201: no front matter, the text is returned as it is
FMNoFrontMatter ==
    /\ pc = "fm_entry"
    /\ ~(HasFrontMatter(Stripped(text)) /\ FirstLineIsDelimiter(SplitLines(Stripped(text))))
    /\ meta' = EmptyDict
    /\ rest_text' = text
    /\ pc' = "fm_returned"
    /\ UNCHANGED <<text, lines, i, current_list_key, mdVars, blocks, docVars>>

\* lines 195-205: the scan starts after the opening delimiter
FMBegin ==
    /\ pc = "fm_entry"
    /\ HasFrontMatter(Stripped(text))
    /\ FirstLineIsDelimiter(SplitLines(Stripped(text)))
    /\ lines' = SplitLines(Stripped(text))
    /\ meta' = EmptyDict
    /\ i' = 1
    /\ current_list_key' = <<>>
    /\ pc' = "fm_loop"
    /\ UNCHANGED <<text, rest_text, mdVars, blocks, docVars>>

\* lines 208-210: the closing delimiter ends the scan
FMCloseDelimiter ==
    /\ Scanning
    /\ IsDelimiterLine(CurLine)
    /\ i' = i + 1
    /\ pc' = "fm_exit"
    /\ UNCHANGED <<text, lines, meta, current_list_key, rest_text, mdVars, blocks, docVars>>

\* lines 211-213
FMSkipLine ==
    /\ Scanning
    /\ ~IsDelimiterLine(CurLine)
    /\ IsBlankOrComment(CurLine)
    /\ i' = i + 1
    /\ UNCHANGED <<pc, text, lines, meta, current_list_key, rest_text, mdVars, blocks, docVars>>

\* lines 215-221
FMDashLine ==
    /\ Scanning
    /\ ~IsDelimiterLine(CurLine)
    /\ ~IsBlankOrComment(CurLine)
    /\ IsDashLine(CurLine)
    /\ meta' = MetaAfterDash(meta, current_list_key, CurLine)
    /\ i' = i + 1
    /\ UNCHANGED <<pc, text, lines, current_list_key, rest_text, mdVars, blocks, docVars>>

\* lines 223-245
FMKeyValueLine ==
    /\ Scanning
    /\ ~IsDelimiterLine(CurLine)
    /\ ~IsBlankOrComment(CurLine)
    /\ ~IsDashLine(CurLine)
    /\ meta' = MetaAfterKeyValue(meta, CurLine)
    /\ current_list_key' = ListKeyAfterKeyValue(current_list_key, CurLine)
    /\ i' = i + 1
    /\ UNCHANGED <<pc, text, lines, rest_text, mdVars, blocks, docVars>>

\* line 206: the while condition fails at the end of the input
FMEndOfInput ==
    /\ pc = "fm_loop"
    /\ i >= Len(lines)
    /\ pc' = "fm_exit"
    /\ UNCHANGED <<fmVars, mdVars, blocks, docVars>>

\* lines 247-248
FMReturn ==
    /\ pc = "fm_exit"
    /\ rest_text' = RestText(lines, i)
    /\ pc' = "fm_returned"
    /\ UNCHANGED <<text, lines, i, meta, current_list_key, mdVars, blocks, docVars>>

InitFM ==
    /\ pc = "fm_entry"
    /\ text \in FMTexts
    /\ lines = <<>>
    /\ i = 0
    /\ meta = EmptyDict
    /\ current_list_key = <<>>
    /\ rest_text = <<>>
    /\ body_lines = <<>>
    /\ k = 0
    /\ blocks = <<>>
    /\ data = EmptyDict
    /\ args_title = <<>>
    /\ title_rendered = FALSE
    /\ skipped_first_h1 = FALSE
    /\ bi = 0
    /\ document = <<>>

NextFM ==
    \/ FMNoFrontMatter
    \/ FMBegin
    \/ FMCloseDelimiter
    \/ FMSkipLine
    \/ FMDashLine
    \/ FMKeyValueLine
    \/ FMEndOfInput
    \/ FMReturn

\* _parse_simple_front_matter on every text of FMTexts
SpecFM == InitFM /\ [][NextFM]_vars

-----------------------------------------------------------------------------
(* _parse_controlled_markdown *)

\* most lines of a generated body text
MaxBodyLines == 3

\* lines a body text is made of
BodyLineChoices ==
    { <<>>,                                  \* empty
      <<" ", "\t">>,                         \* whitespace only
      <<"#", " ", "T">>,                     \* # T
      <<"#", "#", " ", "s", " ">>,           \* ## s    and a trailing blank
      <<"#", "#", "#", "#", "#", "d">>,      \* #####d
      <<"#", "#", "#", "#", "#", "#", "x">>, \* ######x
      <<"#", " ">>,                          \* #       nothing after the run
      <<" ", "#", " ", "i">>,                \*  # i    blank before the run
      <<"p", "#", "q">>,                     \* p#q
      <<"#", "#", "#", "m", "#", "n">> }     \* ###m#n

BodyTexts == {Join(ls, <<"\n">>) : ls \in SeqsUpTo(BodyLineChoices, MaxBodyLines)}

K_title == <<"t", "i", "t", "l", "e">>
K_recipients == <<"r", "e", "c", "i", "p", "i", "e", "n", "t", "s">>
K_attachments == <<"a", "t", "t", "a", "c", "h", "m", "e", "n", "t", "s">>
K_signer == <<"s", "i", "g", "n", "e", "r">>
K_date == <<"d", "a", "t", "e">>
K_body == <<"b", "o", "d", "y">>
K_blocks == <<"b", "l", "o", "c", "k", "s">>

\* metadata as _parse_simple_front_matter returns it
MetaChoices ==
    { EmptyDict,
      DictSet(EmptyDict, K_signer, StrV(<<"S">>)),
      DictSet(EmptyDict, K_date, StrV(<<"D">>)),
      DictSet(DictSet(DictSet(EmptyDict, K_signer, StrV(<<"S">>)), K_date, StrV(<<"D">>)),
              K_attachments, ListV(<< <<"A">>, <<"B">> >>)) }

RECURSIVE Decimal(_)
\* str(n) for a natural number n
Decimal(n) ==
    LET digit == <<"0", "1", "2", "3", "4", "5", "6", "7", "8", "9">>[(n % 10) + 1]
    IN  IF n < 10 THEN <<digit>> ELSE Decimal(n \div 10) \o <<digit>>

Block(type, txt) == [type |-> type, text |-> txt]

\* lines 267-272: the length of the leading run of "#"
LeadingHashes(line) == FirstNotIn(line, {"#"}) - 1

\* mutant of IsHeadingLine: line 275 left out, a run with nothing after it is a heading
IsHeadingLine_NoContentTest(line) ==
    StartsWith(line, <<"#">>) /\ LeadingHashes(line) \in 1..5

\* lines 266, 273, 275: the line becomes a heading block
IsHeadingLine(line) ==
    /\ StartsWith(line, <<"#">>)
    /\ LeadingHashes(line) \in 1..5
    /\ LStrip(SubSeq(line, LeadingHashes(line) + 1, Len(line))) # <<>>

\* line 276
HeadingBlock(line) ==
    Block(<<"h">> \o Decimal(LeadingHashes(line)),
          LStrip(SubSeq(line, LeadingHashes(line) + 1, Len(line))))

\* mutant of ParagraphBlock: the leading "#" run is cut from the text
ParagraphBlock_HashesCut(line) == Block(<<"p">>, Strip(LStripSet(Strip(line), {"#"})))

\* line 278
ParagraphBlock(line) == Block(<<"p">>, Strip(line))

\* lines 281-285: the text of the first h1 block, "" when there is none
FirstH1Title(bs) ==
    LET h1s == {j \in 1..Len(bs) : bs[j].type = <<"h", "1">>}
    IN  IF h1s = {} THEN <<>>
        ELSE Strip(bs[CHOOSE j \in h1s : \A o \in h1s : j <= o].text)

\* lines 287-294
MarkdownData(m, bs) ==
    [key \in {K_title, K_recipients, K_attachments, K_signer, K_date, K_blocks} |->
        IF key = K_title THEN StrV(FirstH1Title(bs))
        ELSE IF key = K_blocks THEN ListV(bs)
        ELSE DictGet(m, key)]

\* line 263: the line the for loop is at, raw_line.rstrip()
CurBodyLine == RStrip(body_lines[k + 1])
InBodyLoop == pc = "md_loop" /\ k < Len(body_lines)

\* lines 261-262: meta and body_text are what line 259 returned
MDBegin ==
    /\ pc = "md_entry"
    /\ body_lines' = SplitLines(rest_text)
    /\ k' = 0
    /\ blocks' = <<>>
    /\ pc' = "md_loop"
    /\ UNCHANGED <<fmVars, docVars>>

\* lines 264-265
MDSkipBlank ==
    /\ InBodyLoop
    /\ Strip(CurBodyLine) = <<>>
    /\ k' = k + 1
    /\ UNCHANGED <<pc, fmVars, body_lines, blocks, docVars>>

\* lines 266-277
MDHeading ==
    /\ InBodyLoop
    /\ Strip(CurBodyLine) # <<>>
    /\ IsHeadingLine(CurBodyLine)
    /\ blocks' = Append(blocks, HeadingBlock(CurBodyLine))
    /\ k' = k + 1
    /\ UNCHANGED <<pc, fmVars, body_lines, docVars>>

\* line 278
MDParagraph ==
    /\ InBodyLoop
    /\ Strip(CurBodyLine) # <<>>
    /\ ~IsHeadingLine(CurBodyLine)
    /\ blocks' = Append(blocks, ParagraphBlock(CurBodyLine))
    /\ k' = k + 1
    /\ UNCHANGED <<pc, fmVars, body_lines, docVars>>

\* lines 280-295
MDReturn ==
    /\ pc = "md_loop"
    /\ k >= Len(body_lines)
    /\ data' = MarkdownData(meta, blocks)
    /\ pc' = "md_returned"
    /\ UNCHANGED <<fmVars, mdVars, blocks, args_title, title_rendered, skipped_first_h1,
                   bi, document>>

InitMD ==
    /\ pc = "md_entry"
    /\ text = <<>>
    /\ lines = <<>>
    /\ i = 0
    /\ meta \in MetaChoices
    /\ current_list_key = <<>>
    /\ rest_text \in BodyTexts
    /\ body_lines = <<>>
    /\ k = 0
    /\ blocks = <<>>
    /\ data = EmptyDict
    /\ args_title = <<>>
    /\ title_rendered = FALSE
    /\ skipped_first_h1 = FALSE
    /\ bi = 0
    /\ document = <<>>

NextMD ==
    \/ MDBegin
    \/ MDSkipBlank
    \/ MDHeading
    \/ MDParagraph
    \/ MDReturn

\* _parse_controlled_markdown from line 261 on, on every body text of BodyTexts
SpecMD == InitMD /\ [][NextMD]_vars

-----------------------------------------------------------------------------
(* build_document: constants and helpers *)

\* lines 14-17: the font names, each written by the name of its constant
TITLE_FONT == "TITLE_FONT"
BODY_FONT == "BODY_FONT"
SUBTITLE_FONT == "SUBTITLE_FONT"
LEVEL1_FONT == "LEVEL1_FONT"

\* lines 19-24, in points
TITLE_SIZE == 22
BODY_SIZE == 16
TWO_CHAR_INDENT == 32

\* an indent that is not given (None), and one of n points
NoIndent == <<>>
Indent(n) == <<n>>

\* characters outside ASCII
IdeographicComma == "U+3001"
FullwidthColon == "U+FF1A"
FullwidthLeftParen == "U+FF08"
FullwidthRightParen == "U+FF09"
LeftCurlyQuote == "U+201C"
RightCurlyQuote == "U+201D"
AttachmentLabel == <<"U+9644", "U+4EF6", "U+FF1A">>
CJKNumerals == {"U+4E00", "U+4E8C", "U+4E09", "U+56DB", "U+4E94",
                "U+516D", "U+4E03", "U+516B", "U+4E5D", "U+5341"}

\* str(value) for None, a str and a list of str
PyStr(value) ==
    IF value.t = "none" THEN <<"N", "o", "n", "e">>
    ELSE IF value.t = "str" THEN value.v
    ELSE <<"[">> \o Join([n \in 1..Len(value.v) |-> <<"'">> \o value.v[n] \o <<"'">>],
                         <<",", " ">>) \o <<"]">>

\* dict.get(key, default)
DictGetDefault(d, key, default) == IF key \in DOMAIN d THEN d[key] ELSE default

RECURSIVE NormalizeQuotes(_)
\* lines 70-73: re.sub(r'"([^"\n]+)"', curly quotes around \1, text)
NormalizeQuotes(s) ==
    IF ~Contains(s, "\"") THEN s
    ELSE LET before == SplitFirst(s, "\"")[1]
             after == SplitFirst(s, "\"")[2]
         IN  IF ~Contains(after, "\"") THEN s
             ELSE LET inner == SplitFirst(after, "\"")[1]
                      rest == SplitFirst(after, "\"")[2]
                  IN  IF inner # <<>> /\ ~Contains(inner, "\n")
                      THEN before \o <<LeftCurlyQuote>> \o inner \o <<RightCurlyQuote>>
                               \o NormalizeQuotes(rest)
                      ELSE before \o <<"\"">> \o NormalizeQuotes(after)

\* lines 76-88: the paragraph _add_text_paragraph adds; text is its argument,
\* run the text of the run it is given
TextParagraph(txt, font, size, align, first_line_indent, left_indent) ==
    [kind |-> "text", text |-> txt, run |-> NormalizeQuotes(txt), font |-> font,
     size |-> size, bold |-> (font = SUBTITLE_FONT), align |-> align,
     first_line_indent |-> first_line_indent, left_indent |-> left_indent]

\* lines 91-94: the paragraph _add_blank_paragraph adds
BlankParagraph ==
    [kind |-> "blank", text |-> <<>>, run |-> <<>>, font |-> "", size |-> 0,
     bold |-> FALSE, align |-> "NONE", first_line_indent |-> NoIndent,
     left_indent |-> NoIndent]

\* lines 132-138
choose_font_for_paragraph(txt) ==
    LET stripped == Strip(txt)
    IN  IF stripped # <<>> /\ stripped[1] \in CJKNumerals
           /\ Contains(SubSeq(stripped, 1, IF Len(stripped) < 3 THEN Len(stripped) ELSE 3),
                       IdeographicComma)
        THEN LEVEL1_FONT
        ELSE IF stripped # <<>> /\ stripped[1] = FullwidthLeftParen
                /\ Contains(SubSeq(stripped, 1, IF Len(stripped) < 4 THEN Len(stripped) ELSE 4),
                            FullwidthRightParen)
        THEN SUBTITLE_FONT
        ELSE BODY_FONT

\* the items of a list, stripped, the empty ones left out
StrippedItems(items) == FilterSeq([n \in 1..Len(items) |-> Strip(items[n])], {<<>>})

\* lines 141-146
normalize_recipients(value) ==
    IF value.t = "none" THEN <<>>
    ELSE IF value.t = "list" THEN Join(StrippedItems(value.v), <<IdeographicComma>>)
    ELSE Strip(PyStr(value))

\* lines 149-155
normalize_list(value) ==
    IF value.t = "none" THEN <<>>
    ELSE IF value.t = "list" THEN StrippedItems(value.v)
    ELSE IF Strip(PyStr(value)) # <<>> THEN <<Strip(PyStr(value))>> ELSE <<>>

\* lines 158-166
parse_body_text(txt) == StrippedItems(SplitLines(txt))

\* mutant of HEADING_STYLE_MAP: levels 4 and 5 are given the face and the
\* alignment of level 2
HEADING_STYLE_MAP_DeepAsLevel2(level) ==
    IF level = 1 THEN <<[font |-> TITLE_FONT, size |-> TITLE_SIZE, align |-> "CENTER", indent |-> NoIndent]>>
    ELSE IF level \in {2, 4, 5} THEN <<[font |-> LEVEL1_FONT, size |-> BODY_SIZE, align |-> "LEFT", indent |-> Indent(TWO_CHAR_INDENT)]>>
    ELSE IF level = 3 THEN <<[font |-> SUBTITLE_FONT, size |-> BODY_SIZE, align |-> "LEFT", indent |-> Indent(TWO_CHAR_INDENT)]>>
    ELSE <<>>

\* lines 42-48: HEADING_STYLE_MAP.get(level), <<>> for None
HEADING_STYLE_MAP(level) ==
    IF level = 1 THEN <<[font |-> TITLE_FONT, size |-> TITLE_SIZE, align |-> "CENTER", indent |-> NoIndent]>>
    ELSE IF level = 2 THEN <<[font |-> LEVEL1_FONT, size |-> BODY_SIZE, align |-> "LEFT", indent |-> Indent(TWO_CHAR_INDENT)]>>
    ELSE IF level = 3 THEN <<[font |-> SUBTITLE_FONT, size |-> BODY_SIZE, align |-> "LEFT", indent |-> Indent(TWO_CHAR_INDENT)]>>
    ELSE IF level \in {4, 5} THEN <<[font |-> BODY_FONT, size |-> BODY_SIZE, align |-> "LEFT", indent |-> Indent(TWO_CHAR_INDENT)]>>
    ELSE <<>>

Digits == {"0", "1", "2", "3", "4", "5", "6", "7", "8", "9"}

RECURSIVE DigitsValue(_)
\* the number a sequence of digits writes
DigitsValue(s) ==
    IF s = <<>> THEN 0
    ELSE 10 * DigitsValue(SubSeq(s, 1, Len(s) - 1))
         + (CHOOSE d \in 0..9 : Decimal(d) = <<s[Len(s)]>>)

\* lines 382-385: int(btype[1:]), 0 on ValueError (the block types of the
\* model are made of letters and digits)
LevelOf(btype) ==
    LET rest == Tail(btype)
    IN  IF rest # <<>> /\ \A n \in 1..Len(rest) : rest[n] \in Digits
        THEN DigitsValue(rest) ELSE 0

\* lines 304-310, 312-317: the locals of build_document
Title == Strip(PyStr(DictGetDefault(data, K_title, StrV(<<>>))))
Recipients == normalize_recipients(DictGet(data, K_recipients))
Attachments == normalize_list(DictGet(data, K_attachments))
Signer == Strip(PyStr(DictGetDefault(data, K_signer, StrV(<<>>))))
Date == Strip(PyStr(DictGetDefault(data, K_date, StrV(<<>>))))
Body ==
    LET body == DictGetDefault(data, K_body, ListV(<<>>))
    IN  IF body.t = "str" THEN parse_body_text(body.v)
        ELSE IF body.t = "list" THEN StrippedItems(body.v)
        ELSE <<>>

\* line 326: isinstance(blocks, list) and blocks
UseBlocks == DictGet(data, K_blocks).t = "list" /\ DictGet(data, K_blocks).v # <<>>

\* lines 331-345: the text of the title taken from the blocks: that of the
\* first h1 block, stripped; <<>> when there is no h1 block
TitleFromBlocks(bs) ==
    LET h1s == {j \in 1..Len(bs) : bs[j].type = <<"h", "1">>}
    IN  IF h1s = {} THEN <<>>
        ELSE Strip(bs[CHOOSE j \in h1s : \A o \in h1s : j <= o].text)

\* lines 335-342, 349-356, 416-423: the title and the blank line after it
TitleParagraphs(txt) ==
    <<TextParagraph(txt, TITLE_FONT, TITLE_SIZE, "CENTER", NoIndent, NoIndent),
      BlankParagraph>>

\* mutant of FallbackNeeded: title_rendered is not looked at
FallbackNeeded_IgnoresRendered(rendered, title) == title # <<>>

\* line 348
FallbackNeeded(rendered, title) == ~rendered /\ title # <<>>

\* lines 360-367, 425-432
RecipientParagraphs(recipients) ==
    IF recipients # <<>>
    THEN <<TextParagraph(recipients \o <<FullwidthColon>>, BODY_FONT, BODY_SIZE, "LEFT",
                         NoIndent, NoIndent)>>
    ELSE <<>>

\* mutant of AttachmentText: every line of the list is given the label
AttachmentText_LabelOnEveryLine(idx, name) ==
    AttachmentLabel \o Decimal(idx) \o <<".", " ">> \o name

\* lines 461, 464: a line of the attachment list
AttachmentText(idx, name) ==
    (IF idx = 1 THEN AttachmentLabel ELSE <<" ", " ", " ", " ">>)
        \o Decimal(idx) \o <<".", " ">> \o name

\* lines 449-468
AttachmentParagraphs(attachments) ==
    IF attachments = <<>> THEN <<>>
    ELSE <<BlankParagraph>> \o
         (IF Len(attachments) = 1
          THEN <<TextParagraph(AttachmentLabel \o attachments[1], BODY_FONT, BODY_SIZE,
                               "NONE", NoIndent, Indent(TWO_CHAR_INDENT))>>
          ELSE [n \in 1..Len(attachments) |->
                   TextParagraph(AttachmentText(n, attachments[n]), BODY_FONT, BODY_SIZE,
                                 "NONE", NoIndent, Indent(TWO_CHAR_INDENT))])

\* lines 470-487
SignerDateParagraphs(signer, date) ==
    IF signer # <<>> \/ date # <<>>
    THEN <<BlankParagraph>>
         \o (IF signer # <<>>
             THEN <<TextParagraph(signer, BODY_FONT, BODY_SIZE, "RIGHT", NoIndent, NoIndent)>>
             ELSE <<>>)
         \o (IF date # <<>>
             THEN <<TextParagraph(date, BODY_FONT, BODY_SIZE, "RIGHT", NoIndent, NoIndent)>>
             ELSE <<>>)
    ELSE <<>>

-----------------------------------------------------------------------------
(* main and build_document as a state machine *)

\* a field the input does not supply
Missing == [t |-> "missing"]

\* the dict with the entries of f that are supplied
DataOf(f) == [key \in {x \in DOMAIN f : f[x] # Missing} |-> f[key]]

MaxBlocks == 3
MaxAttachments == 3

H1 == <<"h", "1">>
BlockTypeChoices ==
    {H1, <<"h", "2">>, <<"h", "3">>, <<"h", "4">>, <<"h", "5">>, <<"h", "6">>, <<"p">>,
     <<"h", "x">>}

\* a block of the input: its type and whether its text is whitespace only
BlockChoices ==
    {[type |-> ty, empty |-> FALSE] : ty \in BlockTypeChoices}
        \cup {[type |-> H1, empty |-> TRUE], [type |-> <<"p">>, empty |-> TRUE]}

\* the text of the j-th block, each with a blank to strip
BlockTextAt(j, empty) == IF empty THEN <<" ">> ELSE <<" ", "t">> \o Decimal(j)

BlockSeqs ==
    {[j \in 1..Len(c) |-> Block(c[j].type, BlockTextAt(j, c[j].empty))] :
        c \in SeqsUpTo(BlockChoices, MaxBlocks)}

\* JSON inputs with a "blocks" key, with a "title" key or the --title option
BlockScenarios ==
    {[data |-> DataOf((K_blocks :> ListV(bs)) @@ (K_title :> c.title)),
      args_title |-> c.args_title] :
        bs \in BlockSeqs,
        c \in {[title |-> Missing, args_title |-> <<>>],
               [title |-> StrV(<<"T">>), args_title |-> <<>>],
               [title |-> Missing, args_title |-> <<"O">>]}}

AttachmentNames == {<<"A">>, <<" ">>, <<"\"", "B", "\"">>}
AttachmentChoices ==
    {Missing, NoneV, StrV(<<>>), StrV(<<" ", "A", " ">>)}
        \cup {ListV(l) : l \in SeqsUpTo(AttachmentNames, MaxAttachments)}
FieldChoices == {Missing, NoneV, StrV(<<>>), StrV(<<" ", "S", " ">>)}

\* JSON inputs with the fields of the tail of the document
TailScenarios ==
    {[data |-> DataOf((K_title :> StrV(<<"T">>)) @@ (K_attachments :> a)
                      @@ (K_signer :> s) @@ (K_date :> d)),
      args_title |-> <<>>] :
        a \in AttachmentChoices, s \in FieldChoices, d \in FieldChoices}

BodyChoices ==
    {Missing, NoneV,
     StrV(<<"U+4E00", "U+3001", "a", "\n", "\n", " ", "U+FF08", "U+4E00", "U+FF09", "b", " ",
            "\n", "c">>),
     ListV(<< <<"x">>, <<" ">>, <<"\"", "y", "\"">> >>)}
RecipientChoices ==
    {Missing, StrV(<<" ", "R", " ">>), ListV(<< <<"R">>, <<" ">>, <<"Q">> >>)}

\* JSON inputs without blocks
FlatScenarios ==
    {[data |-> DataOf((K_title :> t) @@ (K_body :> b) @@ (K_recipients :> r)),
      args_title |-> <<>>] :
        t \in {Missing, StrV(<<"T">>)}, b \in BodyChoices, r \in RecipientChoices}

\* Markdown inputs: what _parse_controlled_markdown returns
MarkdownScenarios ==
    {[data |-> MarkdownData(m, bs), args_title |-> a] :
        m \in MetaChoices,
        bs \in {<<>>, <<Block(<<"p">>, <<"x">>)>>,
                <<Block(H1, <<"M">>), Block(<<"p">>, <<"x">>), Block(H1, <<"N">>)>>},
        a \in {<<>>, <<"O">>}}

DocScenarios == BlockScenarios \cup TailScenarios \cup FlatScenarios \cup MarkdownScenarios

\* lines 532-547: if args.title: data["title"] = args.title, then
\* build_document is called; the options --recipients, --body, --body-file and
\* --attachment are not given, so lines 534-544 change nothing
Main ==
    /\ pc = "main"
    /\ data' = IF args_title # <<>> THEN DictSet(data, K_title, StrV(args_title)) ELSE data
    /\ pc' = "bd_entry"
    /\ UNCHANGED <<fmVars, mdVars, blocks, args_title, title_rendered, skipped_first_h1,
                   bi, document>>

\* lines 311, 326-345: the block path is taken; the title from the first h1
BDBlockTitle ==
    /\ pc = "bd_entry"
    /\ UseBlocks
    /\ blocks' = DictGet(data, K_blocks).v
    /\ title_rendered' = (TitleFromBlocks(blocks') # <<>>)
    /\ document' = IF title_rendered' THEN TitleParagraphs(TitleFromBlocks(blocks'))
                   ELSE <<>>
    /\ pc' = "bd_fallback"
    /\ UNCHANGED <<fmVars, mdVars, data, args_title, skipped_first_h1, bi>>

\* lines 348-357: the title of the data when the blocks gave none
BDFallbackTitle ==
    /\ pc = "bd_fallback"
    /\ document' = IF FallbackNeeded(title_rendered, Title)
                   THEN document \o TitleParagraphs(Title) ELSE document
    /\ title_rendered' = (title_rendered \/ FallbackNeeded(title_rendered, Title))
    /\ pc' = "bd_recipients"
    /\ UNCHANGED <<fmVars, mdVars, blocks, data, args_title, skipped_first_h1, bi>>

\* lines 414-423: without blocks, the title of the data
BDFlatTitle ==
    /\ pc = "bd_entry"
    /\ ~UseBlocks
    /\ blocks' = <<>>
    /\ document' = IF Title # <<>> THEN TitleParagraphs(Title) ELSE <<>>
    /\ pc' = "bd_recipients"
    /\ UNCHANGED <<fmVars, mdVars, data, args_title, title_rendered, skipped_first_h1, bi>>

\* lines 360-367 and 425-432, then line 370 or line 434: the loop begins
BDRecipients ==
    /\ pc = "bd_recipients"
    /\ document' = document \o RecipientParagraphs(Recipients)
    /\ skipped_first_h1' = FALSE
    /\ bi' = 0
    /\ pc' = IF UseBlocks THEN "bd_blocks" ELSE "bd_body"
    /\ UNCHANGED <<fmVars, mdVars, blocks, data, args_title, title_rendered>>

\* lines 371-373: the block the loop is at, its type and its stripped text
CurBlock == blocks[bi + 1]
CurBlockText == Strip(CurBlock.text)
InBlockLoop == pc = "bd_blocks" /\ bi < Len(blocks)

\* lines 374-375
BDSkipEmptyBlock ==
    /\ InBlockLoop
    /\ CurBlockText = <<>>
    /\ bi' = bi + 1
    /\ UNCHANGED <<fmVars, mdVars, blocks, data, args_title, title_rendered,
                   skipped_first_h1, document, pc>>

\* lines 377-379
BDSkipFirstH1 ==
    /\ InBlockLoop
    /\ CurBlockText # <<>>
    /\ CurBlock.type = H1 /\ ~skipped_first_h1
    /\ skipped_first_h1' = TRUE
    /\ bi' = bi + 1
    /\ UNCHANGED <<fmVars, mdVars, blocks, data, args_title, title_rendered, document, pc>>

\* line 381
IsHeadingType(btype) == btype # <<>> /\ btype[1] = "h"
\* line 387
HasHeadingStyle(btype) == HEADING_STYLE_MAP(LevelOf(btype)) # <<>> /\ LevelOf(btype) # 1

\* lines 381-395
BDHeadingBlock ==
    /\ InBlockLoop
    /\ CurBlockText # <<>>
    /\ ~(CurBlock.type = H1 /\ ~skipped_first_h1)
    /\ IsHeadingType(CurBlock.type) /\ HasHeadingStyle(CurBlock.type)
    /\ LET style == HEADING_STYLE_MAP(LevelOf(CurBlock.type))[1]
       IN  document' = Append(document,
               TextParagraph(CurBlockText, style.font, style.size, style.align,
                             style.indent, NoIndent))
    /\ bi' = bi + 1
    /\ UNCHANGED <<fmVars, mdVars, blocks, data, args_title, title_rendered,
                   skipped_first_h1, pc>>

\* lines 396-403
BDDemotedBlock ==
    /\ InBlockLoop
    /\ CurBlockText # <<>>
    /\ ~(CurBlock.type = H1 /\ ~skipped_first_h1)
    /\ IsHeadingType(CurBlock.type) /\ ~HasHeadingStyle(CurBlock.type)
    /\ document' = Append(document,
           TextParagraph(CurBlockText, BODY_FONT, BODY_SIZE, "NONE",
                         Indent(TWO_CHAR_INDENT), NoIndent))
    /\ bi' = bi + 1
    /\ UNCHANGED <<fmVars, mdVars, blocks, data, args_title, title_rendered,
                   skipped_first_h1, pc>>

\* lines 404-412
BDParagraphBlock ==
    /\ InBlockLoop
    /\ CurBlockText # <<>>
    /\ ~(CurBlock.type = H1 /\ ~skipped_first_h1)
    /\ ~IsHeadingType(CurBlock.type)
    /\ document' = Append(document,
           TextParagraph(CurBlockText, BODY_FONT, BODY_SIZE, "JUSTIFY",
                         Indent(TWO_CHAR_INDENT), NoIndent))
    /\ bi' = bi + 1
    /\ UNCHANGED <<fmVars, mdVars, blocks, data, args_title, title_rendered,
                   skipped_first_h1, pc>>

\* lines 434-447
BDFlatParagraph ==
    /\ pc = "bd_body"
    /\ bi < Len(Body)
    /\ LET font == choose_font_for_paragraph(Body[bi + 1])
       IN  document' = Append(document,
               TextParagraph(Body[bi + 1], font, BODY_SIZE,
                             IF font = BODY_FONT THEN "JUSTIFY" ELSE "LEFT",
                             Indent(TWO_CHAR_INDENT), NoIndent))
    /\ bi' = bi + 1
    /\ UNCHANGED <<fmVars, mdVars, blocks, data, args_title, title_rendered,
                   skipped_first_h1, pc>>

\* lines 370 and 434: the loop of the path taken is over
BDBodyDone ==
    /\ \/ pc = "bd_blocks" /\ bi >= Len(blocks)
       \/ pc = "bd_body" /\ bi >= Len(Body)
    /\ pc' = "bd_attachments"
    /\ UNCHANGED <<fmVars, mdVars, docVars, blocks>>

\* lines 449-468
BDAttachments ==
    /\ pc = "bd_attachments"
    /\ document' = document \o AttachmentParagraphs(Attachments)
    /\ pc' = "bd_signer"
    /\ UNCHANGED <<fmVars, mdVars, blocks, data, args_title, title_rendered,
                   skipped_first_h1, bi>>

\* lines 470-490: the signer and the date; the page number goes to the footer
\* of the section, the paragraphs of the document are then saved as they are
BDSignerDate ==
    /\ pc = "bd_signer"
    /\ document' = document \o SignerDateParagraphs(Signer, Date)
    /\ pc' = "bd_done"
    /\ UNCHANGED <<fmVars, mdVars, blocks, data, args_title, title_rendered,
                   skipped_first_h1, bi>>

InitDoc ==
    /\ pc = "main"
    /\ text = <<>>
    /\ lines = <<>>
    /\ i = 0
    /\ meta = EmptyDict
    /\ current_list_key = <<>>
    /\ rest_text = <<>>
    /\ body_lines = <<>>
    /\ k = 0
    /\ blocks = <<>>
    /\ \E s \in DocScenarios : data = s.data /\ args_title = s.args_title
    /\ title_rendered = FALSE
    /\ skipped_first_h1 = FALSE
    /\ bi = 0
    /\ document = <<>>

NextDoc ==
    \/ Main
    \/ BDBlockTitle
    \/ BDFallbackTitle
    \/ BDFlatTitle
    \/ BDRecipients
    \/ BDSkipEmptyBlock
    \/ BDSkipFirstH1
    \/ BDHeadingBlock
    \/ BDDemotedBlock
    \/ BDParagraphBlock
    \/ BDFlatParagraph
    \/ BDBodyDone
    \/ BDAttachments
    \/ BDSignerDate

\* main from line 532 on and build_document, on every input of DocScenarios
SpecDoc == InitDoc /\ [][NextDoc]_vars

-----------------------------------------------------------------------------
(* Properties of _parse_simple_front_matter *)

\* the text up to its first newline, after the byte-order marks
FirstLineOf(t) ==
    LET s == LStripSet(t, {BOM})
        n == CHOOSE j \in 1..(Len(s) + 1) :
                 /\ (j = Len(s) + 1 \/ s[j] = "\n")
                 /\ \A m \in 1..(j - 1) : s[m] # "\n"
    IN  SubSeq(s, 1, n - 1)

\* C7: a text whose first line, after removing a byte-order mark, is not
\* exactly three dashes comes back with empty metadata and as the remaining
\* text, character for character.
C7_NoFrontMatterIsIdentity ==
    (pc = "fm_returned" /\ FirstLineOf(text) # <<"-", "-", "-">>)
        => (meta = EmptyDict /\ rest_text = text)

\* C7 witness: a returned text that starts with three dashes, has more on its
\* first line, and is handed back whole.
C7_Witness ==
    /\ pc = "fm_returned"
    /\ Len(text) > 3
    /\ SubSeq(text, 1, 3) = <<"-", "-", "-">>
    /\ FirstLineOf(text) # <<"-", "-", "-">>
    /\ rest_text = text

\* the claims' dash item: "- x" or "  - x"
C9_IsDashItem(line) ==
    \/ (Len(line) >= 2 /\ line[1] = "-" /\ line[2] = " ")
    \/ (Len(line) >= 4 /\ line[1] = " " /\ line[2] = " " /\ line[3] = "-" /\ line[4] = " ")

\* a line that leaves the open list as it is: blank, comment or dash item
C9_IsPassive(line) ==
    \/ Strip(line) = <<>>
    \/ Head(LStrip(line)) = "#"
    \/ C9_IsDashItem(line)

\* a "key:" line with an empty value
C9_OpensList(line) ==
    /\ ~C9_IsPassive(line)
    /\ Contains(line, ":")
    /\ Strip(SplitFirst(line, ":")[1]) # <<>>
    /\ Strip(SplitFirst(line, ":")[2]) = <<>>

\* the list key open after header lines ls[2..n]: that of the last line that
\* is not passive, when it is a "key:" line with an empty value
C9_OpenKey(ls, n) ==
    LET active == {j \in 2..n : ~C9_IsPassive(ls[j])}
    IN  IF active = {} THEN <<>>
        ELSE LET j == CHOOSE m \in active : \A o \in active : o <= m
             IN  IF C9_OpensList(ls[j]) THEN <<Strip(SplitFirst(ls[j], ":")[1])>>
                 ELSE <<>>

\* C9: while the header is scanned, a dash-item line "- x" appends x at the
\* end of the list of the open list key and changes no other entry; a list
\* key is open from a "key:" line with an empty value until the next line
\* that is neither blank, comment nor dash item; with no list key open a
\* dash-item line leaves the metadata as it is.
C9_DashItemsGoToTheOpenList ==
    [][(pc = "fm_loop" /\ i < Len(lines) /\ C9_IsDashItem(lines[i + 1]))
        => LET open == C9_OpenKey(lines, i)
               x == Strip(SplitFirst(lines[i + 1], "-")[2])
           IN  IF open = <<>> \/ x = <<>>
               THEN meta' = meta
               ELSE /\ open[1] \in DOMAIN meta
                    /\ meta[open[1]].t = "list"
                    /\ DOMAIN meta' = DOMAIN meta
                    /\ meta'[open[1]] = ListV(Append(meta[open[1]].v, x))
                    /\ \A key \in DOMAIN meta \ {open[1]} : meta'[key] = meta[key]]_vars

\* C9 witness: list a was opened and took the items x and y in that order.
C9_Witness ==
    /\ pc = "fm_returned"
    /\ <<"a">> \in DOMAIN meta
    /\ meta[<<"a">>] = ListV(<< <<"x">>, <<"y">> >>)

\* the text, after the byte-order marks, is "---" or goes on after "---\n"
C10_BeginsWithDelimiterLine(t) == FirstLineOf(t) = <<"-", "-", "-">>

\* the lines of the text that are closing delimiters (three dashes between
\* optional blanks), by their place in splitlines()
C10_ClosingDelimiters(t) ==
    LET ls == SplitLines(LStripSet(t, {BOM}))
    IN  {j \in 2..Len(ls) : Strip(ls[j]) = <<"-", "-", "-">>}

\* the lines strictly after the first closing delimiter joined by newline,
\* empty when there is none
C10_ExpectedRest(t) ==
    LET ls == SplitLines(LStripSet(t, {BOM}))
        cl == C10_ClosingDelimiters(t)
    IN  IF cl = {} THEN <<>>
        ELSE LET first == CHOOSE j \in cl : \A o \in cl : j <= o
             IN  Join(SubSeq(ls, first + 1, Len(ls)), <<"\n">>)

\* the scan index at which the loop is left: just after the first closing
\* delimiter, or the number of lines
C10_StopIndex(t) ==
    LET ls == SplitLines(LStripSet(t, {BOM}))
        cl == C10_ClosingDelimiters(t)
    IN  IF cl = {} THEN Len(ls)
        ELSE CHOOSE j \in cl : \A o \in cl : j <= o

\* the steps the function has left at most: the scan has the lines from i on
C10_Variant ==
    CASE pc = "fm_entry" -> Len(text) + 3
      [] pc = "fm_loop" -> Len(lines) - i + 2
      [] pc = "fm_exit" -> 1
      [] OTHER -> 0

\* C10: on a text that begins with the delimiter line the scan terminates:
\* every iteration raises the line index by one and keeps it within the
\* lines, every step lowers a natural-number variant, and the loop is left
\* at the first closing delimiter or at the end of the input; the remaining
\* text is the lines strictly after the first closing delimiter joined by
\* newline, and empty when there is none.
C10_ScanTerminates ==
    /\ [][(pc = "fm_loop" /\ i < Len(lines))
            => (i' = i + 1 /\ i' <= Len(lines) /\ lines' = lines)]_vars
    /\ [][C10_Variant' < C10_Variant /\ C10_Variant' >= 0]_vars
    /\ []((pc = "fm_exit" /\ C10_BeginsWithDelimiterLine(text))
            => i = C10_StopIndex(text))
    /\ []((pc = "fm_returned" /\ C10_BeginsWithDelimiterLine(text))
            => rest_text = C10_ExpectedRest(text))

\* C10 witness: a header closed by a delimiter, with text left after it.
C10_Witness ==
    /\ pc = "fm_returned"
    /\ C10_BeginsWithDelimiterLine(text)
    /\ C10_ClosingDelimiters(text) # {}
    /\ i < Len(lines)
    /\ rest_text # <<>>

-----------------------------------------------------------------------------
(* Properties of _parse_controlled_markdown *)

\* a blank line: empty, or whitespace only
C5_IsBlank(line) == \A j \in 1..Len(line) : line[j] \in Whitespace

\* the non-blank ones among the first n lines of the body text, in line order
C5_NonBlankLines(n) ==
    LET ls == SubSeq(SplitLines(rest_text), 1, n)
    IN  SelectSeq(ls, LAMBDA l : ~C5_IsBlank(l))

\* the length of the run of "#" that begins the line
C6_Run(line) ==
    CHOOSE n \in 0..Len(line) :
        /\ \A j \in 1..n : line[j] = "#"
        /\ (n = Len(line) \/ line[n + 1] # "#")

\* the line after its first n characters
C6_After(line, n) == SubSeq(line, n + 1, Len(line))

\* the line is a heading: a run of 1 to 5 "#" and a non-whitespace character after it
C6_IsHeading(line) ==
    /\ C6_Run(line) \in 1..5
    /\ \E j \in 1..Len(C6_After(line, C6_Run(line))) :
           C6_After(line, C6_Run(line))[j] \notin Whitespace

\* C5: the block list has one block per non-blank line of the body text, in
\* line order, none for a blank line, and every block has a non-empty text:
\* after n lines there are as many blocks as non-blank lines among them, and
\* the j-th block holds the j-th non-blank line, whole or after its "#" run.
C5_OneBlockPerNonBlankLine ==
    (pc \in {"md_loop", "md_returned"})
        => LET nb == C5_NonBlankLines(k)
           IN  /\ Len(blocks) = Len(nb)
               /\ (pc = "md_returned" => k = Len(SplitLines(rest_text)))
               /\ \A j \in 1..Len(blocks) :
                      /\ blocks[j].text # <<>>
                      /\ \/ blocks[j].text = Strip(nb[j])
                         \/ blocks[j].text = Strip(C6_After(nb[j], C6_Run(nb[j])))

\* C5 witness: three lines, one of them blank, gave two blocks.
C5_Witness ==
    /\ pc = "md_returned"
    /\ Len(SplitLines(rest_text)) = 3
    /\ Len(C5_NonBlankLines(3)) = 2
    /\ Len(blocks) = 2

\* C6 as stated: a non-blank line is h{n} with the trimmed remainder as text
\* exactly when it begins with a run of n "#", 1 <= n <= 5, followed by a
\* non-whitespace character; otherwise it is a paragraph whose text is the
\* entire line (its trailing whitespace stripped), leading "#" included.
C6_AsStated ==
    (pc = "md_returned")
        => LET nb == C5_NonBlankLines(Len(SplitLines(rest_text)))
           IN  /\ Len(blocks) = Len(nb)
               /\ \A j \in 1..Len(blocks) :
                      IF C6_IsHeading(nb[j])
                      THEN blocks[j] = [type |-> <<"h">> \o Decimal(C6_Run(nb[j])),
                                        text |-> Strip(C6_After(nb[j], C6_Run(nb[j])))]
                      ELSE blocks[j] = [type |-> <<"p">>, text |-> RStrip(nb[j])]

\* C6 amended: as stated, but the text of a paragraph is the entire line with
\* its leading and its trailing whitespace removed, leading "#" included.
C6_ClassifiesByLeadingRun ==
    (pc = "md_returned")
        => LET nb == C5_NonBlankLines(Len(SplitLines(rest_text)))
           IN  /\ Len(blocks) = Len(nb)
               /\ \A j \in 1..Len(blocks) :
                      IF C6_IsHeading(nb[j])
                      THEN blocks[j] = [type |-> <<"h">> \o Decimal(C6_Run(nb[j])),
                                        text |-> Strip(C6_After(nb[j], C6_Run(nb[j])))]
                      ELSE blocks[j] = [type |-> <<"p">>, text |-> Strip(nb[j])]

\* C6 witness: five "#" gave an h5, six "#" a paragraph that keeps them, and
\* a "#" inside a heading stayed in its text.
C6_Witness ==
    /\ pc = "md_returned"
    /\ \E j \in 1..Len(blocks) : blocks[j] = [type |-> <<"h", "5">>, text |-> <<"d">>]
    /\ \E j \in 1..Len(blocks) :
           blocks[j] = [type |-> <<"p">>, text |-> <<"#", "#", "#", "#", "#", "#", "x">>]
    /\ \E j \in 1..Len(blocks) :
           blocks[j] = [type |-> <<"h", "3">>, text |-> <<"m", "#", "n">>]

-----------------------------------------------------------------------------
(* Properties of main and build_document *)

\* the segments of the document, told apart by what the code gives them
IsTitleSegment(p) == p.kind = "text" /\ p.font = TITLE_FONT
IsBodySegment(p) == p.kind = "text" /\ p.first_line_indent # NoIndent
IsAttachmentSegment(p) == p.kind = "text" /\ p.left_indent # NoIndent
IsRightSegment(p) == p.kind = "text" /\ p.align = "RIGHT"
IsBlankSegment(p) == p.kind = "blank"
TextsOf(segments) == [n \in 1..Len(segments) |-> segments[n].text]

\* the first h1 block of the block sequence, 0 when there is none
FirstH1Index ==
    IF \E j \in 1..Len(blocks) : blocks[j].type = H1
    THEN CHOOSE j \in 1..Len(blocks) :
            blocks[j].type = H1 /\ \A o \in 1..(j - 1) : blocks[o].type # H1
    ELSE 0

\* C1: a title override is given and the block sequence has an h1 block
C1_Case == pc = "bd_done" /\ args_title # <<>> /\ FirstH1Index # 0

C2_SegmentsOf(j) ==
    {n \in 1..Len(document) :
        IsBodySegment(document[n]) /\ document[n].text = Strip(blocks[j].text)}

\* the face, the weight and the alignment of a segment, with the
\* two-character first-line indent
C2_HasStyle(p, font, bold, align) ==
    /\ p.font = font
    /\ p.bold = bold
    /\ p.align = align
    /\ p.first_line_indent = Indent(TWO_CHAR_INDENT)
    /\ p.size = BODY_SIZE

\* the blocks the claim is about: h2 to h5 and p, with a text
C2_Block(j) ==
    /\ blocks[j].type \in {<<"h", "2">>, <<"h", "3">>, <<"h", "4">>, <<"h", "5">>, <<"p">>}
    /\ Strip(blocks[j].text) # <<>>

\* the block path has emitted every block it will emit
C2_Emitted(j) == pc \in {"bd_attachments", "bd_signer", "bd_done"} => C2_SegmentsOf(j) # {}

\* C2 as stated: every h2 block is emitted in the level-2 face, left-aligned;
\* every h3 block in the bold face, left-aligned; every h4, h5 and paragraph
\* block in the body face, justified; all with the two-character indent.
C2_DeepHeadingsJustified ==
    \A j \in 1..Len(blocks) : C2_Block(j) =>
        /\ C2_Emitted(j)
        /\ \A n \in C2_SegmentsOf(j) :
              IF blocks[j].type = <<"h", "2">>
              THEN C2_HasStyle(document[n], LEVEL1_FONT, FALSE, "LEFT")
              ELSE IF blocks[j].type = <<"h", "3">>
              THEN C2_HasStyle(document[n], SUBTITLE_FONT, TRUE, "LEFT")
              ELSE C2_HasStyle(document[n], BODY_FONT, FALSE, "JUSTIFY")

\* C2: every h2 block is emitted in the level-2 face, left-aligned; every h3
\* block in the bold face, left-aligned; every h4 and h5 block in the body
\* face, left-aligned; every paragraph block in the body face, justified; all
\* with the two-character first-line indent.
C2_DeepHeadingsLeftAligned ==
    \A j \in 1..Len(blocks) : C2_Block(j) =>
        /\ C2_Emitted(j)
        /\ \A n \in C2_SegmentsOf(j) :
              IF blocks[j].type = <<"h", "2">>
              THEN C2_HasStyle(document[n], LEVEL1_FONT, FALSE, "LEFT")
              ELSE IF blocks[j].type = <<"h", "3">>
              THEN C2_HasStyle(document[n], SUBTITLE_FONT, TRUE, "LEFT")
              ELSE IF blocks[j].type \in {<<"h", "4">>, <<"h", "5">>}
              THEN C2_HasStyle(document[n], BODY_FONT, FALSE, "LEFT")
              ELSE C2_HasStyle(document[n], BODY_FONT, FALSE, "JUSTIFY")

C2_Witness ==
    /\ pc = "bd_done"
    /\ \E j \in 1..Len(blocks) :
          blocks[j].type = <<"h", "4">> /\ C2_SegmentsOf(j) # {}
    /\ \E j \in 1..Len(blocks) :
          blocks[j].type = <<"p">> /\ C2_SegmentsOf(j) # {}
    /\ \E j \in 1..Len(blocks) :
          blocks[j].type = <<"h", "3">> /\ C2_SegmentsOf(j) # {}

\* C3: the text of a field of the input, empty when the input does not supply
\* it (the key is absent or its value is null)
C3_Field(key) ==
    IF key \in DOMAIN data /\ data[key].t = "str" THEN Strip(data[key].v) ELSE <<>>

\* C3: a signer segment is emitted only if the signer field is not empty and
\* a date segment only if the date field is not empty, a field the input does
\* not supply counting as empty; the signer precedes the date, both
\* right-aligned, after one blank separator, and without either of them no
\* separator is emitted.
C3_OnlyNonEmptyFieldsEmitted ==
    pc = "bd_done" =>
        LET expected == (IF C3_Field(K_signer) # <<>> THEN <<C3_Field(K_signer)>> ELSE <<>>)
                        \o (IF C3_Field(K_date) # <<>> THEN <<C3_Field(K_date)>> ELSE <<>>)
        IN  /\ TextsOf(SelectSeq(document, IsRightSegment)) = expected
            /\ expected = <<>> =>
                  \/ document = <<>>
                  \/ ~IsBlankSegment(document[Len(document)])
                  \/ Len(document) > 1 /\ IsTitleSegment(document[Len(document) - 1])
            /\ expected # <<>> =>
                  /\ Len(document) > Len(expected)
                  /\ IsBlankSegment(document[Len(document) - Len(expected)])
                  /\ \A n \in (Len(document) - Len(expected) + 1)..Len(document) :
                        IsRightSegment(document[n])

\* the texts the body is to have: those of the blocks with a text, the first
\* h1 block left out
C4_ExpectedBody ==
    TextsOf(SelectSeq([j \in 1..Len(blocks) |->
                          [text |-> Strip(blocks[j].text), first |-> (j = FirstH1Index)]],
                      LAMBDA b : b.text # <<>> /\ ~b.first))

\* C4: at most one title segment is emitted, taken from the first h1 block;
\* that block is the only one left out of the body; every later h1 block with
\* a text is emitted once in the body, in block order, in the body face.
C4_OnlyFirstH1LeftOut ==
    (pc = "bd_done" /\ blocks # <<>>) =>
        /\ Len(SelectSeq(document, IsTitleSegment)) <= 1
        /\ (FirstH1Index # 0 /\ Strip(blocks[FirstH1Index].text) # <<>>) =>
              TextsOf(SelectSeq(document, IsTitleSegment))
                  = <<Strip(blocks[FirstH1Index].text)>>
        /\ TextsOf(SelectSeq(document, IsBodySegment)) = C4_ExpectedBody
        /\ \A n \in 1..Len(document) : \A j \in 1..Len(blocks) :
              (IsBodySegment(document[n]) /\ blocks[j].type = H1
               /\ document[n].text = Strip(blocks[j].text))
                  => document[n].font = BODY_FONT

\* the segments the attachment list A is to yield
C8_Expected(A) ==
    IF Len(A) = 1 THEN <<AttachmentLabel \o A[1]>>
    ELSE [n \in 1..Len(A) |->
             (IF n = 1 THEN AttachmentLabel ELSE <<" ", " ", " ", " ">>)
                 \o Decimal(n) \o <<".", " ">> \o A[n]]

\* the blank segment at n separates nothing: it neither follows the title nor
\* precedes an attachment or a right-aligned segment
C8_StrayBlank(n) ==
    /\ IsBlankSegment(document[n])
    /\ ~(n > 1 /\ IsTitleSegment(document[n - 1]))
    /\ ~(n < Len(document)
         /\ (IsAttachmentSegment(document[n + 1]) \/ IsRightSegment(document[n + 1])))

=============================================================================
